---- MODULE Spec2Model ----
(***************************************************************************)
(* RDDrone UWB driver (src/drivers/uwb/rddrone/rddrone.cpp): the framing   *)
(* loops and the survey -> ranging -> stop session of RDDrone::run(),      *)
(* together with the serial line it reads from.                            *)
(*                                                                         *)
(* The driver is one task; pc is its position in run().  The UWB module    *)
(* and the task that requests the stop are the environment.                *)
(***************************************************************************)
EXTENDS Integers, Sequences, FiniteSets, TLC

(* ---- program constants ------------------------------------------------ *)
GRID_MSG_SIZE == 163        \* sizeof(grid_msg_t)
DISTANCE_MSG_SIZE == 51     \* sizeof(distance_msg_t)
STOP_BYTE == 27             \* 0x1b
CMD_SIZE == 20              \* sizeof(CMD_...): uint8_t[20]

(* ---- bounds of the model ---------------------------------------------- *)
MaxSurveyAttempts == 5      \* iterations of the survey loop
MaxRangingIter == 2         \* iterations of the ranging loop that start a frame
MaxBursts == 3              \* bursts the UWB module transmits
MaxStopRequests == 2        \* calls of request_stop()

(* ---- inputs ----------------------------------------------------------- *)
\* What the module transmits without a pause, as <<length, body byte, last byte>>:
\* whole frames (a valid survey frame of zeros, the same with a zero terminal
\* byte, a valid distance frame, a distance frame full of stop bytes whose
\* terminal byte is not one) and the pieces of frames cut by a pause (a first
\* byte, and the rest of a survey and of a distance frame).
Bursts == {<<GRID_MSG_SIZE, 0, STOP_BYTE>>, <<GRID_MSG_SIZE, 0, 0>>,
           <<DISTANCE_MSG_SIZE, 0, STOP_BYTE>>, <<DISTANCE_MSG_SIZE, STOP_BYTE, 0>>,
           <<1, 0, 0>>,
           <<GRID_MSG_SIZE - 1, 0, STOP_BYTE>>, <<DISTANCE_MSG_SIZE - 1, 0, STOP_BYTE>>}
WriteResults == {-1, CMD_SIZE - 1, CMD_SIZE}   \* return values of write(): failed, short, full
ReadFailures == {-1, 0}                 \* return values of a read() without data

VARIABLES
    pc,                     \* position of the task in run()
    grid_found,             \* bool grid_found
    grid_buffer_location,   \* size_t grid_buffer_location
    buffer_location,        \* size_t buffer_location
    grid_survey_msg,        \* _grid_survey_msg, as bytes
    distance_result_msg,    \* _distance_result_msg, as bytes
    ok,                     \* bool ok
    uart_timeout,           \* _uart_timeout: "MESSAGE" or "BYTE"
    written,                \* int written
    uwb_grid,               \* _uwb_grid as last published
    uwb_distance,           \* _uwb_distance as last published
    events,                 \* commands written and records published, in order
    read_count_perf,        \* _read_count_perf
    read_err_perf,          \* _read_err_perf
    warnings,               \* PX4_WARN("UWB module is not responding.") count
    exit_requested,         \* ModuleBase::should_exit()
    stop_requests,          \* calls of request_stop() so far
    rx,                     \* bytes received by the UART and not yet read
    bursts_sent,            \* bursts the UWB module has transmitted
    pending,                \* history: the bursts rx is made of, as <<burst, bytes left>>
    received,               \* history: the bytes read() delivered in this attempt
    survey_failed,          \* history: survey attempts that were not accepted
    distance_accepted       \* history: distance attempts found ok

driver == <<pc, grid_found, grid_buffer_location, buffer_location,
            grid_survey_msg, distance_result_msg, ok, uart_timeout, written,
            uwb_grid, uwb_distance, events, read_count_perf, read_err_perf,
            warnings>>
history == <<survey_failed, distance_accepted, received>>
line == <<rx, bursts_sent, pending>>
vars == <<driver, exit_requested, stop_requests, line, history>>

(* ---- helpers ---------------------------------------------------------- *)
Min(a, b) == IF a < b THEN a ELSE b

Count(e) == Cardinality({i \in 1..Len(events) : events[i] = e})

\* The bytes of a burst: size bytes, the last one is `last`.
Frame(size, fill, last) == [i \in 1..size |-> IF i = size THEN last ELSE fill]

\* A message struct as constructed (value-initialised): all bytes zero.
Blank(size) == [i \in 1..size |-> 0]

\* Mutant: every read lands at the start of the buffer.
StoreAt_FromStart(buffer, location, data) ==
    [i \in 1..Len(buffer) |-> IF i <= Len(data) THEN data[i] ELSE buffer[i]]

\* read(_uart, &buffer[location], n): the bytes land at buffer[location..].
StoreAt(buffer, location, data) ==
    [i \in 1..Len(buffer) |->
        IF location < i /\ i <= location + Len(data)
        THEN data[i - location] ELSE buffer[i]]

\* The bursts still on the line once its first n bytes have been read.
RECURSIVE Taken(_, _)
Taken(bursts, n) ==
    IF n = 0 \/ bursts = <<>> THEN bursts
    ELSE IF bursts[1][2] > n
         THEN <<<<bursts[1][1], bursts[1][2] - n>>>> \o Tail(bursts)
         ELSE Taken(Tail(bursts), n - bursts[1][2])

\* Mutant: a read empties the UART, whatever it hands over.
Unread_Flushed(held, n) == <<>>

\* What the UART still holds after read() has handed over n bytes.
Unread(held, n) == SubSeq(held, n + 1, Len(held))

\* Mutant: read() hands over all the UART holds, whatever count is asked for.
ReadLength_Unbounded(count, held) == Len(held)

\* read() hands over what the UART holds, at most the count asked for.
ReadLength(count, held) == Min(count, Len(held))

\* The values read() can return when asked for count bytes.
ReadResults(count) == ReadFailures \cup {ReadLength(count, rx)}

\* msg.stop: the terminal byte of the packed message struct.
StopOf(msg) == msg[Len(msg)]

\* The measurement fields of a message: everything before the stop byte.
FieldsOf(msg) == SubSeq(msg, 1, Len(msg) - 1)

\* Mutant: the stop byte is not looked at.
SurveyAcceptable_NoStop(location, msg) ==
    location = GRID_MSG_SIZE

\* Mutant: a complete message of either size is taken for the survey.
SurveyAcceptable_EitherSize(location, msg) ==
    /\ location \in {GRID_MSG_SIZE, DISTANCE_MSG_SIZE}
    /\ msg[location] = STOP_BYTE

SurveyAcceptable(location, msg) ==
    location = GRID_MSG_SIZE /\ StopOf(msg) = STOP_BYTE

\* Mutant: the size of the message is not looked at.
DistanceAcceptable_NoSize(location, msg) ==
    StopOf(msg) = STOP_BYTE

DistanceAcceptable(location, msg) ==
    location = DISTANCE_MSG_SIZE /\ StopOf(msg) = STOP_BYTE

\* Mutant: a failed attempt is retried without sending the command again.
AfterSurveyCheck_NoResend(found) ==
    IF found THEN "grid_publish" ELSE "survey_receive"

\* Mutant: the accepted survey goes straight to ranging, unpublished.
AfterSurveyCheck_SkipPublish(found) ==
    IF found THEN "ranging_write" ELSE "survey_write"

\* while (grid_found == 0) { ... }: where the task goes from the end of the
\* loop body.
AfterSurveyCheck(found) ==
    IF found THEN "grid_publish" ELSE "survey_write"

\* Mutant: the record is published whether or not the frame is ok.
AfterDistanceCheck_Always(accepted) ==
    "distance_publish"

\* Mutant: after a rejected frame the begin-ranging command is sent again.
AfterDistanceCheck_Rebegin(accepted) ==
    IF accepted THEN "distance_publish" ELSE "ranging_write"

\* Mutant: a pending stop request is looked at before the frame is published.
AfterDistanceCheck_PollFirst(accepted) ==
    IF accepted /\ ~exit_requested THEN "distance_publish" ELSE "distance_reject"

\* if (ok) { ... } else { ... }
AfterDistanceCheck(accepted) ==
    IF accepted THEN "distance_publish" ELSE "distance_reject"

\* Mutant: every short attempt is reported as an unresponsive module.
NotResponding_AnyShort(location) ==
    IF location < DISTANCE_MSG_SIZE THEN 1 ELSE 0

\* if (buffer_location == 0) { PX4_WARN("UWB module is not responding."); }
NotResponding(location) ==
    IF location = 0 THEN 1 ELSE 0

(* ---- initial state ---------------------------------------------------- *)
Init ==
    /\ pc = "survey_write"
    /\ grid_found = FALSE
    /\ grid_buffer_location = 0
    /\ buffer_location = 0
    /\ grid_survey_msg = Blank(GRID_MSG_SIZE)
    /\ distance_result_msg = Blank(DISTANCE_MSG_SIZE)
    /\ ok = FALSE
    /\ uart_timeout = "MESSAGE"
    /\ written = 0
    /\ uwb_grid = <<>>
    /\ uwb_distance = <<>>
    /\ events = <<>>
    /\ read_count_perf = 0
    /\ read_err_perf = 0
    /\ warnings = 0
    /\ exit_requested = FALSE
    /\ stop_requests = 0
    /\ rx = <<>>
    /\ bursts_sent = 0
    /\ pending = <<>>
    /\ received = <<>>
    /\ survey_failed = 0
    /\ distance_accepted = 0

(* ---- the environment -------------------------------------------------- *)
\* The task looks at the UART only in its select()/read() loops; bytes that
\* arrive while it is elsewhere reach it exactly as bytes arriving before the
\* next select().
AtUart == pc \in {"survey_receive", "distance_receive"}

\* The UWB module transmits a burst: its bytes reach the UART back to back,
\* directly behind the bytes the UART still holds.
ModuleSend(burst) ==
    /\ AtUart
    /\ bursts_sent < MaxBursts
    /\ rx' = rx \o Frame(burst[1], burst[2], burst[3])
    /\ bursts_sent' = bursts_sent + 1
    /\ pending' = Append(pending, <<burst, burst[1]>>)
    /\ UNCHANGED <<driver, exit_requested, stop_requests, history>>

\* Another task asks the module to stop ("uwb stop").
RequestStop ==
    /\ stop_requests < MaxStopRequests
    /\ exit_requested' = TRUE
    /\ stop_requests' = stop_requests + 1
    /\ UNCHANGED <<driver, line, history>>

\* Mutant: a rejected frame ends the ranging loop.
ShouldExit_OnError == exit_requested \/ read_err_perf > 0

\* Mutant: the stop request is never seen.
ShouldExit_Never == FALSE

\* should_exit()
ShouldExit == exit_requested

(* ---- RDDrone::run(), grid survey -------------------------------------- *)
\* Mutant: a new survey attempt goes on where the aborted one stopped.
SurveyWrite_KeepCursor(w) ==
    /\ pc = "survey_write"
    /\ grid_found = FALSE
    /\ Count("CMD_GRID_SURVEY") < MaxSurveyAttempts
    /\ written' = w
    /\ events' = Append(events, "CMD_GRID_SURVEY")
    /\ uart_timeout' = "MESSAGE"
    /\ received' = <<>>
    /\ pc' = "survey_receive"
    /\ UNCHANGED <<grid_found, grid_buffer_location, buffer_location, grid_survey_msg,
                   distance_result_msg, ok, uwb_grid, uwb_distance, read_count_perf,
                   read_err_perf, warnings, exit_requested, stop_requests, line,
                   survey_failed, distance_accepted>>

\* while (grid_found == 0) { write(CMD_GRID_SURVEY); ...; grid_buffer_location = 0;
SurveyWrite(w) ==
    /\ pc = "survey_write"
    /\ grid_found = FALSE
    /\ Count("CMD_GRID_SURVEY") < MaxSurveyAttempts
    /\ written' = w
    /\ events' = Append(events, "CMD_GRID_SURVEY")
    /\ uart_timeout' = "MESSAGE"
    /\ grid_buffer_location' = 0
    /\ received' = <<>>
    /\ pc' = "survey_receive"
    /\ UNCHANGED <<grid_found, buffer_location, grid_survey_msg, distance_result_msg,
                   ok, uwb_grid, uwb_distance, read_count_perf, read_err_perf,
                   warnings, exit_requested, stop_requests, line, survey_failed,
                   distance_accepted>>

\* while (grid_buffer_location < sizeof(_grid_survey_msg) && select(...) > 0) {
\*     bytes_read = read(...);
\*     if (bytes_read > 0) grid_buffer_location += bytes_read; else break;
\*     _uart_timeout = BYTE_TIMEOUT_US; }
\* select() is positive exactly when the UART holds a byte; otherwise it expires.
SurveyReceive(bytes_read) ==
    /\ pc = "survey_receive"
    /\ IF grid_buffer_location < GRID_MSG_SIZE /\ rx # <<>>
       THEN IF bytes_read > 0
            THEN /\ bytes_read = ReadLength(GRID_MSG_SIZE - grid_buffer_location, rx)
                 /\ grid_survey_msg' = StoreAt(grid_survey_msg, grid_buffer_location,
                                               SubSeq(rx, 1, bytes_read))
                 /\ rx' = Unread(rx, bytes_read)
                 /\ pending' = Taken(pending, bytes_read)
                 /\ received' = received \o SubSeq(rx, 1, bytes_read)
                 /\ grid_buffer_location' = grid_buffer_location + bytes_read
                 /\ uart_timeout' = "BYTE"
                 /\ pc' = "survey_receive"
            ELSE /\ bytes_read \in ReadFailures
                 /\ pc' = "survey_check"
                 /\ UNCHANGED <<grid_survey_msg, rx, grid_buffer_location, uart_timeout,
                                pending, received>>
       ELSE /\ bytes_read = 0
            /\ pc' = "survey_check"
            /\ UNCHANGED <<grid_survey_msg, rx, grid_buffer_location, uart_timeout,
                           pending, received>>
    /\ UNCHANGED <<grid_found, buffer_location, distance_result_msg, ok, written,
                   uwb_grid, uwb_distance, events, read_count_perf, read_err_perf,
                   warnings, exit_requested, stop_requests, bursts_sent,
                   survey_failed, distance_accepted>>

\* grid_found = (location == sizeof(grid_msg_t) && msg.stop == 0x1b); perf_count(...)
SurveyCheck ==
    /\ pc = "survey_check"
    /\ grid_found' = SurveyAcceptable(grid_buffer_location, grid_survey_msg)
    /\ read_count_perf' = read_count_perf + 1
    /\ survey_failed' = survey_failed + (IF grid_found' THEN 0 ELSE 1)
    /\ pc' = AfterSurveyCheck(grid_found')
    /\ UNCHANGED <<grid_buffer_location, buffer_location, grid_survey_msg,
                   distance_result_msg, ok, uart_timeout, written, uwb_grid,
                   uwb_distance, events, read_err_perf, warnings, exit_requested,
                   stop_requests, line, distance_accepted, received>>

\* _uwb_grid.* = _grid_survey_msg.*; _uwb_grid_pub.publish(_uwb_grid); sleep(1);
GridPublish ==
    /\ pc = "grid_publish"
    /\ uwb_grid' = FieldsOf(grid_survey_msg)
    /\ events' = Append(events, "uwb_grid")
    /\ pc' = "ranging_write"
    /\ UNCHANGED <<grid_found, grid_buffer_location, buffer_location,
                   grid_survey_msg, distance_result_msg, ok, uart_timeout, written,
                   uwb_distance, read_count_perf, read_err_perf, warnings,
                   exit_requested, stop_requests, line, history>>

(* ---- RDDrone::run(), ranging ------------------------------------------ *)
\* Mutant: with a stop already requested the begin-ranging command is skipped.
RangingWrite_SkippedOnStop(w) ==
    /\ pc = "ranging_write"
    /\ written' = IF exit_requested THEN written ELSE w
    /\ events' = IF exit_requested THEN events ELSE Append(events, "CMD_DISTANCE_RESULT")
    /\ pc' = "ranging_poll"
    /\ UNCHANGED <<grid_found, grid_buffer_location, buffer_location,
                   grid_survey_msg, distance_result_msg, ok, uart_timeout,
                   uwb_grid, uwb_distance, read_count_perf, read_err_perf,
                   warnings, exit_requested, stop_requests, line, history>>

\* Mutant: a short write of the begin-ranging command ends the session.
RangingWrite_FailShort(w) ==
    /\ pc = "ranging_write"
    /\ written' = w
    /\ events' = Append(events, "CMD_DISTANCE_RESULT")
    /\ pc' = IF w < CMD_SIZE THEN "stop_write" ELSE "ranging_poll"
    /\ UNCHANGED <<grid_found, grid_buffer_location, buffer_location,
                   grid_survey_msg, distance_result_msg, ok, uart_timeout,
                   uwb_grid, uwb_distance, read_count_perf, read_err_perf,
                   warnings, exit_requested, stop_requests, line, history>>

\* written = write(_uart, CMD_DISTANCE_RESULT, sizeof(CMD_DISTANCE_RESULT));
RangingWrite(w) ==
    /\ pc = "ranging_write"
    /\ written' = w
    /\ events' = Append(events, "CMD_DISTANCE_RESULT")
    /\ pc' = "ranging_poll"
    /\ UNCHANGED <<grid_found, grid_buffer_location, buffer_location,
                   grid_survey_msg, distance_result_msg, ok, uart_timeout,
                   uwb_grid, uwb_distance, read_count_perf, read_err_perf,
                   warnings, exit_requested, stop_requests, line, history>>

\* Mutant: a new ranging attempt keeps the cursor of the one before.
RangingPoll_KeepCursor ==
    /\ pc = "ranging_poll"
    /\ IF ShouldExit
       THEN /\ pc' = "stop_write"
            /\ UNCHANGED <<uart_timeout, received>>
       ELSE /\ read_count_perf - Count("CMD_GRID_SURVEY") < MaxRangingIter
            /\ uart_timeout' = "MESSAGE"
            /\ received' = <<>>
            /\ pc' = "distance_receive"
    /\ UNCHANGED <<grid_found, grid_buffer_location, buffer_location, grid_survey_msg,
                   distance_result_msg, ok, written, uwb_grid, uwb_distance,
                   events, read_count_perf, read_err_perf, warnings,
                   exit_requested, stop_requests, line, survey_failed,
                   distance_accepted>>

\* while (!should_exit()) { ...; buffer_location = 0;
RangingPoll ==
    /\ pc = "ranging_poll"
    /\ IF ShouldExit
       THEN /\ pc' = "stop_write"
            /\ UNCHANGED <<uart_timeout, buffer_location, received>>
       ELSE /\ read_count_perf - Count("CMD_GRID_SURVEY") < MaxRangingIter
            /\ uart_timeout' = "MESSAGE"
            /\ buffer_location' = 0
            /\ received' = <<>>
            /\ pc' = "distance_receive"
    /\ UNCHANGED <<grid_found, grid_buffer_location, grid_survey_msg,
                   distance_result_msg, ok, written, uwb_grid, uwb_distance,
                   events, read_count_perf, read_err_perf, warnings,
                   exit_requested, stop_requests, line, survey_failed,
                   distance_accepted>>

\* Mutant: a read() that delivers nothing goes back to waiting.
DistanceReceive_WaitsOn(bytes_read) ==
    /\ pc = "distance_receive"
    /\ IF buffer_location < DISTANCE_MSG_SIZE /\ rx # <<>>
       THEN IF bytes_read > 0
            THEN /\ bytes_read = ReadLength(DISTANCE_MSG_SIZE - buffer_location, rx)
                 /\ distance_result_msg' = StoreAt(distance_result_msg, buffer_location,
                                                   SubSeq(rx, 1, bytes_read))
                 /\ rx' = Unread(rx, bytes_read)
                 /\ pending' = Taken(pending, bytes_read)
                 /\ received' = received \o SubSeq(rx, 1, bytes_read)
                 /\ buffer_location' = buffer_location + bytes_read
                 /\ uart_timeout' = "BYTE"
                 /\ pc' = "distance_receive"
            ELSE /\ bytes_read \in ReadFailures
                 /\ pc' = "distance_receive"
                 /\ UNCHANGED <<distance_result_msg, rx, buffer_location, uart_timeout,
                                pending, received>>
       ELSE /\ bytes_read = 0
            /\ pc' = "distance_check"
            /\ UNCHANGED <<distance_result_msg, rx, buffer_location, uart_timeout,
                           pending, received>>
    /\ UNCHANGED <<grid_found, grid_buffer_location, grid_survey_msg, ok, written,
                   uwb_grid, uwb_distance, events, read_count_perf, read_err_perf,
                   warnings, exit_requested, stop_requests, bursts_sent,
                   survey_failed, distance_accepted>>

\* while (buffer_location < sizeof(_distance_result_msg) && select(...) > 0) {
\*     bytes_read = read(...);
\*     if (bytes_read > 0) buffer_location += bytes_read; else break;
\*     _uart_timeout = BYTE_TIMEOUT_US; }
DistanceReceive(bytes_read) ==
    /\ pc = "distance_receive"
    /\ IF buffer_location < DISTANCE_MSG_SIZE /\ rx # <<>>
       THEN IF bytes_read > 0
            THEN /\ bytes_read = ReadLength(DISTANCE_MSG_SIZE - buffer_location, rx)
                 /\ distance_result_msg' = StoreAt(distance_result_msg, buffer_location,
                                                   SubSeq(rx, 1, bytes_read))
                 /\ rx' = Unread(rx, bytes_read)
                 /\ pending' = Taken(pending, bytes_read)
                 /\ received' = received \o SubSeq(rx, 1, bytes_read)
                 /\ buffer_location' = buffer_location + bytes_read
                 /\ uart_timeout' = "BYTE"
                 /\ pc' = "distance_receive"
            ELSE /\ bytes_read \in ReadFailures
                 /\ pc' = "distance_check"
                 /\ UNCHANGED <<distance_result_msg, rx, buffer_location, uart_timeout,
                                pending, received>>
       ELSE /\ bytes_read = 0
            /\ pc' = "distance_check"
            /\ UNCHANGED <<distance_result_msg, rx, buffer_location, uart_timeout,
                           pending, received>>
    /\ UNCHANGED <<grid_found, grid_buffer_location, grid_survey_msg, ok, written,
                   uwb_grid, uwb_distance, events, read_count_perf, read_err_perf,
                   warnings, exit_requested, stop_requests, bursts_sent,
                   survey_failed, distance_accepted>>

\* perf_count(_read_count_perf); bool ok = (location == sizeof(distance_msg_t) && ...)
DistanceCheck ==
    /\ pc = "distance_check"
    /\ read_count_perf' = read_count_perf + 1
    /\ ok' = DistanceAcceptable(buffer_location, distance_result_msg)
    /\ distance_accepted' = distance_accepted + (IF ok' THEN 1 ELSE 0)
    /\ pc' = AfterDistanceCheck(ok')
    /\ UNCHANGED <<grid_found, grid_buffer_location, buffer_location,
                   grid_survey_msg, distance_result_msg, uart_timeout, written,
                   uwb_grid, uwb_distance, events, read_err_perf, warnings,
                   exit_requested, stop_requests, line, survey_failed, received>>

\* if (ok) { _uwb_distance.* = _distance_result_msg.*; _uwb_distance_pub.publish(...); }
DistancePublish ==
    /\ pc = "distance_publish"
    /\ uwb_distance' = FieldsOf(distance_result_msg)
    /\ events' = Append(events, "uwb_distance")
    /\ pc' = "ranging_poll"
    /\ UNCHANGED <<grid_found, grid_buffer_location, buffer_location,
                   grid_survey_msg, distance_result_msg, ok, uart_timeout, written,
                   uwb_grid, read_count_perf, read_err_perf, warnings,
                   exit_requested, stop_requests, line, history>>

\* Mutant: the rejected frame is not counted.
DistanceReject_NotCounted ==
    /\ pc = "distance_reject"
    /\ warnings' = warnings + NotResponding(buffer_location)
    /\ pc' = "ranging_poll"
    /\ UNCHANGED <<grid_found, grid_buffer_location, buffer_location,
                   grid_survey_msg, distance_result_msg, ok, uart_timeout, written,
                   uwb_grid, uwb_distance, events, read_count_perf, read_err_perf,
                   exit_requested, stop_requests, line, history>>

\* else { perf_count(_read_err_perf); if (buffer_location == 0) PX4_WARN(...); }
DistanceReject ==
    /\ pc = "distance_reject"
    /\ read_err_perf' = read_err_perf + 1
    /\ warnings' = warnings + NotResponding(buffer_location)
    /\ pc' = "ranging_poll"
    /\ UNCHANGED <<grid_found, grid_buffer_location, buffer_location,
                   grid_survey_msg, distance_result_msg, ok, uart_timeout, written,
                   uwb_grid, uwb_distance, events, read_count_perf,
                   exit_requested, stop_requests, line, history>>

\* Mutant: the stop command is sent once for every request made.
StopWrite_PerRequest(w) ==
    /\ pc = "stop_write"
    /\ written' = w
    /\ events' = Append(events, "CMD_STOP_RANGING")
    /\ pc' = IF Count("CMD_STOP_RANGING") + 1 < stop_requests THEN "stop_write" ELSE "done"
    /\ UNCHANGED <<grid_found, grid_buffer_location, buffer_location,
                   grid_survey_msg, distance_result_msg, ok, uart_timeout,
                   uwb_grid, uwb_distance, read_count_perf, read_err_perf,
                   warnings, exit_requested, stop_requests, line, history>>

\* written = write(_uart, &CMD_STOP_RANGING, sizeof(CMD_STOP_RANGING)); }
StopWrite(w) ==
    /\ pc = "stop_write"
    /\ written' = w
    /\ events' = Append(events, "CMD_STOP_RANGING")
    /\ pc' = "done"
    /\ UNCHANGED <<grid_found, grid_buffer_location, buffer_location,
                   grid_survey_msg, distance_result_msg, ok, uart_timeout,
                   uwb_grid, uwb_distance, read_count_perf, read_err_perf,
                   warnings, exit_requested, stop_requests, line, history>>

(* ---- specification ---------------------------------------------------- *)
Run ==
    \/ \E w \in WriteResults : SurveyWrite(w)
    \/ \E n \in ReadResults(GRID_MSG_SIZE - grid_buffer_location) : SurveyReceive(n)
    \/ SurveyCheck
    \/ GridPublish
    \/ \E w \in WriteResults : RangingWrite(w)
    \/ RangingPoll
    \/ \E n \in ReadResults(DISTANCE_MSG_SIZE - buffer_location) : DistanceReceive(n)
    \/ DistanceCheck
    \/ DistancePublish
    \/ DistanceReject
    \/ \E w \in WriteResults : StopWrite(w)

Next ==
    \/ Run
    \/ \E burst \in Bursts : ModuleSend(burst)
    \/ RequestStop

Spec == Init /\ [][Next]_vars

\* The task is scheduled, and every select() returns: with data, or when its
\* timeout expires.
FairSpec == Spec /\ WF_vars(Run)

(* ---- the session states of the specification, as positions in run() ---- *)
AwaitingSurvey == pc \in {"survey_write", "survey_receive", "survey_check"}
SurveyAcquired == pc \in {"grid_publish", "ranging_write"}
Ranging == pc \in {"ranging_poll", "distance_receive", "distance_check",
                   "distance_publish", "distance_reject"}
Stopped == pc \in {"stop_write", "done"}

\* Once the survey is acquired: the frame attempts of the ranging loop whose
\* acceptance check has run (every check counts in _read_count_perf, and each
\* survey command stands for one checked survey attempt).
RangingAttempts == read_count_perf - Count("CMD_GRID_SURVEY")

(* ======================================================================= *)
(* Properties                                                              *)
(* ======================================================================= *)

\* C1: a survey or distance record is published only by a step taken with the
\* fill cursor at the full size of the message (163 for the survey, 51 for a
\* distance result); an attempt that ended with fewer bytes publishes nothing,
\* whatever the buffer holds.
C1_PublishOnlyFullFrame ==
    [][/\ (Len(events') > Len(events) /\ events'[Len(events')] = "uwb_grid")
            => grid_buffer_location = GRID_MSG_SIZE
       /\ (Len(events') > Len(events) /\ events'[Len(events')] = "uwb_distance")
            => buffer_location = DISTANCE_MSG_SIZE
       /\ (pc = "survey_check" /\ pc' # pc /\ grid_buffer_location < GRID_MSG_SIZE)
            => pc' = "survey_write"
       /\ (pc = "distance_check" /\ pc' # pc /\ buffer_location < DISTANCE_MSG_SIZE)
            => pc' = "distance_reject"]_vars

\* C1 witness: a distance attempt that ended short of 51 bytes is being
\* rejected although the buffer still ends in the stop byte of the frame
\* published before it.
C1_Witness ==
    /\ pc = "distance_reject"
    /\ buffer_location < DISTANCE_MSG_SIZE
    /\ distance_result_msg[DISTANCE_MSG_SIZE] = STOP_BYTE
    /\ Count("uwb_distance") = 1

C3_SurveyRetry ==
    AwaitingSurvey =>
        /\ ~grid_found
        /\ Count("uwb_grid") = 0
        /\ Count("uwb_distance") = 0
        /\ Count("CMD_DISTANCE_RESULT") = 0
        /\ Len(events) = Count("CMD_GRID_SURVEY")
        /\ (pc = "survey_write") => Count("CMD_GRID_SURVEY") = survey_failed
        /\ (pc # "survey_write") => Count("CMD_GRID_SURVEY") = survey_failed + 1

\* C3 witness: five failed attempts, five survey commands, still awaiting.
C3_Witness ==
    /\ pc = "survey_write"
    /\ survey_failed = 5
    /\ Count("CMD_GRID_SURVEY") = 5
    /\ ~grid_found

\* C4: at most one survey record is ever published; it has been published
\* exactly when the survey was accepted and the task has passed the publish
\* step; it comes before the begin-ranging command and every distance record.
C4_OneSurveyRecord ==
    /\ Count("uwb_grid") <= 1
    /\ grid_found <=> ~AwaitingSurvey
    /\ (Count("uwb_grid") = 1) <=> (grid_found /\ pc # "grid_publish")
    /\ \A i \in 1..Len(events) :
          events[i] \in {"CMD_DISTANCE_RESULT", "uwb_distance", "CMD_STOP_RANGING"}
            => \E j \in 1..(i - 1) : events[j] = "uwb_grid"

\* C4 witness: one survey record, published after a failed attempt and
\* followed by the begin-ranging command and a distance record.
C4_Witness ==
    /\ Count("uwb_grid") = 1
    /\ survey_failed >= 1
    /\ Count("uwb_distance") >= 1

\* C5: the number of distance records published equals the number of
\* distance frames accepted (less the one whose publish step is next), and a
\* publish step is only reached with ok set, in Ranging.
C5_OneRecordPerAcceptedFrame ==
    /\ Count("uwb_distance")
         = distance_accepted - (IF pc = "distance_publish" THEN 1 ELSE 0)
    /\ (pc = "distance_publish") => ok
    /\ (pc = "distance_publish" \/ Count("uwb_distance") > 0) => (Ranging \/ Stopped)

\* C5 witness: two distance frames accepted, two records published, the
\* session is in Ranging.
C5_Witness ==
    /\ distance_accepted = 2
    /\ Count("uwb_distance") = 2
    /\ pc = "ranging_poll"

\* C6: in Ranging an attempt that is not accepted goes to the reject branch,
\* which adds exactly one to the error counter, publishes nothing, leaves the
\* published records as they were and returns to the head of the ranging loop.
C6_RejectedAttemptCountsOnce ==
    [][/\ (pc = "distance_check" /\ pc' # pc
              /\ ~(buffer_location = DISTANCE_MSG_SIZE
                    /\ distance_result_msg[DISTANCE_MSG_SIZE] = STOP_BYTE))
            => /\ pc' = "distance_reject"
               /\ UNCHANGED <<read_err_perf, events, uwb_grid, uwb_distance>>
       /\ (pc = "distance_reject" /\ pc' # pc)
            => /\ pc' = "ranging_poll"
               /\ read_err_perf' = read_err_perf + 1
               /\ UNCHANGED <<events, uwb_grid, uwb_distance>>]_vars

\* C6 witness: a distance record was published, the attempt after it was
\* rejected and counted, and the loop is at its head again.
C6_Witness ==
    /\ pc = "ranging_poll"
    /\ ~ok
    /\ read_err_perf = 1
    /\ Count("uwb_distance") = 1
    /\ uwb_distance # <<>>

\* C7: the reject branch logs the "not responding" diagnostic exactly once
\* when the attempt accumulated no byte and not at all otherwise, whatever
\* was logged before, and publishes nothing.
C7_UnresponsiveDiagnostic ==
    [][(pc = "distance_reject" /\ pc' # pc)
          => /\ warnings' = warnings + (IF buffer_location = 0 THEN 1 ELSE 0)
             /\ events' = events
             /\ pc' = "ranging_poll"]_vars

\* C7 witness: two consecutive attempts without a byte, two diagnostics, no
\* record.
C7_Witness ==
    /\ pc = "ranging_poll"
    /\ warnings = 2
    /\ read_err_perf = 2
    /\ Count("uwb_distance") = 0

\* C8: the task is in Stopped, or has sent the stop-ranging command, only if
\* the stop was requested.
C8_StoppedOnlyOnRequest ==
    (Stopped \/ Count("CMD_STOP_RANGING") > 0) => exit_requested

\* C8 witness: the task is stopped after failed survey attempts and a
\* rejected distance attempt.
C8_Witness ==
    /\ pc = "done"
    /\ survey_failed >= 1
    /\ read_err_perf >= 1

\* C9: the stop-ranging command is sent once, as the last thing the task
\* does: once it is sent the task reads no byte, sends no command and
\* publishes no record, however many times the stop was requested.
C9_StopSentOnce ==
    /\ [](/\ Count("CMD_STOP_RANGING") <= 1
          /\ (Count("CMD_STOP_RANGING") = 1) <=> (pc = "done")
          /\ (pc = "done") => events[Len(events)] = "CMD_STOP_RANGING")
    /\ [][(pc = "done") => UNCHANGED <<driver, rx>>]_vars

\* C9 witness: the stop was requested twice and the command sent once.
C9_Witness ==
    /\ pc = "done"
    /\ stop_requests = 2
    /\ Count("CMD_STOP_RANGING") = 1

\* C10 as claimed: in whatever state the stop is requested, the frame attempt
\* in progress is the last one: a loop condition evaluated after the request
\* starts no further attempt, in the survey loop or in the ranging loop.
C10_NoAttemptAfterRequest ==
    [][exit_requested =>
          /\ ~(pc = "survey_check" /\ pc' = "survey_write")
          /\ ~(pc = "ranging_poll" /\ pc' = "distance_receive")]_vars

\* C10 within the ranging loop, where should_exit() is polled: once the survey
\* is acquired and the stop is requested, the
\* task can take a step until run() has ended, every step it can take brings
\* the end of run() nearer (the steps left to the stop command, and within an
\* attempt the bytes still missing, strictly decrease), the head of the
\* ranging loop can only go on to the stop command, and the step after that
\* sends it and ends run().
C10_StopsOnceRanging ==
    LET StepsLeft(p) ==
            CASE p = "grid_publish" -> 7
              [] p = "ranging_write" -> 6
              [] p = "distance_receive" -> 5
              [] p = "distance_check" -> 4
              [] p \in {"distance_publish", "distance_reject"} -> 3
              [] p = "ranging_poll" -> 2
              [] p = "stop_write" -> 1
              [] OTHER -> 0
        Measure(p, location) ==
            StepsLeft(p) * (DISTANCE_MSG_SIZE + 1)
              + (IF p = "distance_receive" THEN DISTANCE_MSG_SIZE - location ELSE 0)
    IN  (exit_requested /\ grid_found /\ pc # "done") =>
            /\ ENABLED Run
            /\ ~ENABLED (Run /\ ~(Measure(pc', buffer_location')
                                     < Measure(pc, buffer_location)))
            /\ (pc = "ranging_poll") => ~ENABLED (Run /\ pc' # "stop_write")
            /\ (pc = "stop_write") =>
                  ~ENABLED (Run /\ ~(/\ pc' = "done"
                                     /\ events' = Append(events, "CMD_STOP_RANGING")))

\* C10 witness: the stop was requested during a distance attempt; the
\* attempt was completed and the task is about to send the stop command.
C10_Witness ==
    /\ pc = "stop_write"
    /\ exit_requested
    /\ RangingAttempts >= 1
(* ---- frames on the line ----------------------------------------------- *)
\* The bursts that are whole valid frames.
ValidSurvey == <<GRID_MSG_SIZE, 0, STOP_BYTE>>
ValidDistance == <<DISTANCE_MSG_SIZE, 0, STOP_BYTE>>

\* The bytes of a burst, and a burst on the line of which nothing is read yet.
Bytes(burst) == Frame(burst[1], burst[2], burst[3])
Whole(burst) == <<burst, burst[1]>>

\* A step of the task, as opposed to one of the UWB module or of the requester.
TaskStep == driver' # driver

\* C11: when a valid survey frame and, directly behind it, a valid distance
\* frame are on the line at the start of a survey attempt, a read of that
\* attempt takes exactly the 163 bytes of the survey frame and leaves the
\* distance frame whole at the head of the line (or delivers nothing and
\* leaves the line as it is); the full survey buffer is accepted; no step
\* outside a framing loop, and no step of a full buffer, takes a byte from the
\* line; and a read of the first ranging attempt takes exactly the 51 bytes
\* of the distance frame, which is accepted.
C11_BackToBackFrames ==
    [][TaskStep =>
         /\ (/\ pc = "survey_receive" /\ grid_buffer_location = 0
             /\ Len(pending) >= 2
             /\ pending[1] = Whole(ValidSurvey) /\ pending[2] = Whole(ValidDistance))
            => \/ /\ pc' = "survey_check"
                  /\ UNCHANGED <<rx, pending, grid_buffer_location, grid_survey_msg>>
               \/ /\ pc' = "survey_receive"
                  /\ grid_buffer_location' = GRID_MSG_SIZE
                  /\ grid_survey_msg' = Bytes(ValidSurvey)
                  /\ pending' = Tail(pending)
                  /\ rx' = SubSeq(rx, GRID_MSG_SIZE + 1, Len(rx))
                  /\ SubSeq(rx', 1, DISTANCE_MSG_SIZE) = Bytes(ValidDistance)
         /\ (/\ pc = "survey_check" /\ grid_buffer_location = GRID_MSG_SIZE
             /\ grid_survey_msg = Bytes(ValidSurvey))
            => grid_found' /\ pc' = "grid_publish"
         /\ (\/ pc \notin {"survey_receive", "distance_receive"}
             \/ pc = "survey_receive" /\ grid_buffer_location = GRID_MSG_SIZE)
            => UNCHANGED <<rx, pending>>
         /\ (/\ pc = "distance_receive" /\ buffer_location = 0
             /\ RangingAttempts = 0
             /\ pending # <<>> /\ pending[1] = Whole(ValidDistance))
            => \/ /\ pc' = "distance_check"
                  /\ UNCHANGED <<rx, pending, buffer_location, distance_result_msg>>
               \/ /\ pc' = "distance_receive"
                  /\ buffer_location' = DISTANCE_MSG_SIZE
                  /\ distance_result_msg' = Bytes(ValidDistance)
                  /\ pending' = Tail(pending)
         /\ (/\ pc = "distance_check" /\ buffer_location = DISTANCE_MSG_SIZE
             /\ distance_result_msg = Bytes(ValidDistance))
            => ok' /\ pc' = "distance_publish"]_vars

\* C11 witness: the only survey attempt has taken the survey frame and was
\* accepted and published; the distance frame, which arrived during that
\* attempt, is whole on the line before the first ranging attempt.
C11_Witness ==
    /\ pc = "ranging_poll"
    /\ RangingAttempts = 0
    /\ Count("CMD_GRID_SURVEY") = 1
    /\ uwb_grid = FieldsOf(Bytes(ValidSurvey))
    /\ pending = <<Whole(ValidDistance)>>
    /\ rx = Bytes(ValidDistance)

\* The task is inside a survey attempt, inside a ranging attempt.
InSurveyAttempt == pc \in {"survey_receive", "survey_check"}
InDistanceAttempt ==
    pc \in {"distance_receive", "distance_check", "distance_publish", "distance_reject"}

\* C12: in whatever pieces a frame arrives, as long as the next piece is on
\* the line when the task waits for it, the buffer holds up to its cursor
\* exactly the bytes taken off the line in this attempt, in their order; a
\* step of the task neither loses nor reorders a byte of the stream (the bytes
\* of the attempt followed by those still on the line stay the same); and a
\* read with bytes waiting and room left stores all it can take and goes on
\* waiting (or delivers nothing and ends the attempt with the line untouched).
C12_ChunkedRoundTrip ==
    /\ [](/\ InSurveyAttempt =>
                /\ Len(received) = grid_buffer_location
                /\ SubSeq(grid_survey_msg, 1, grid_buffer_location) = received
          /\ InDistanceAttempt =>
                /\ Len(received) = buffer_location
                /\ SubSeq(distance_result_msg, 1, buffer_location) = received)
    /\ [][TaskStep =>
            /\ received' = <<>> \/ received' \o rx' = received \o rx
            /\ (pc = "survey_receive" /\ grid_buffer_location < GRID_MSG_SIZE /\ rx # <<>>)
               => \/ pc' = "survey_check" /\ UNCHANGED <<rx, received>>
                  \/ /\ pc' = "survey_receive"
                     /\ grid_buffer_location' =
                           Min(GRID_MSG_SIZE, grid_buffer_location + Len(rx))
            /\ (pc = "distance_receive" /\ buffer_location < DISTANCE_MSG_SIZE /\ rx # <<>>)
               => \/ pc' = "distance_check" /\ UNCHANGED <<rx, received>>
                  \/ /\ pc' = "distance_receive"
                     /\ buffer_location' =
                           Min(DISTANCE_MSG_SIZE, buffer_location + Len(rx))]_vars

\* C12 witness: three bursts made up a survey frame and a distance frame, so
\* one of the two frames came in two pieces (a first byte, then the rest); the
\* only survey attempt was accepted and the first ranging attempt is complete
\* with the bytes of the distance frame.
C12_Witness ==
    /\ pc = "distance_check"
    /\ Count("CMD_GRID_SURVEY") = 1
    /\ RangingAttempts = 0
    /\ bursts_sent = 3
    /\ rx = <<>>
    /\ uwb_grid = FieldsOf(Bytes(ValidSurvey))
    /\ buffer_location = DISTANCE_MSG_SIZE
    /\ distance_result_msg = Bytes(ValidDistance)

\* The bytes on the line ahead of its j-th burst.
RECURSIVE Ahead(_, _)
Ahead(bursts, j) == IF j <= 1 THEN 0 ELSE bursts[j - 1][2] + Ahead(bursts, j - 1)

\* The rest of a frame of which a pause has cut off the first byte.
RestOf(burst) == <<burst[1] - 1, burst[2], burst[3]>>

\* C13 as claimed: once an attempt has been aborted, when the rest of the
\* frame that a pause has cut is on the line and a whole valid frame follows
\* it (or the whole valid frame comes first), that frame is recovered: the
\* read that takes its first byte is the first read of an attempt and takes
\* the frame whole.
C13_ResyncAfterGap ==
    [][(TaskStep /\ Len(rx') < Len(rx)) =>
         /\ (/\ pc = "survey_receive" /\ survey_failed >= 1
             /\ pending[1] \in {Whole(ValidSurvey), Whole(RestOf(ValidSurvey))}) =>
               \A j \in 1..Len(pending) :
                  (/\ pending[j] = Whole(ValidSurvey)
                   /\ Ahead(pending, j) < Len(rx) - Len(rx'))
                  => /\ j = 1 /\ received = <<>>
                     /\ received' = Bytes(ValidSurvey)
         /\ (/\ pc = "distance_receive" /\ read_err_perf >= 1
             /\ pending[1] \in {Whole(ValidDistance), Whole(RestOf(ValidDistance))}) =>
               \A j \in 1..Len(pending) :
                  (/\ pending[j] = Whole(ValidDistance)
                   /\ Ahead(pending, j) < Len(rx) - Len(rx'))
                  => /\ j = 1 /\ received = <<>>
                     /\ received' = Bytes(ValidDistance)]_vars

\* C13 as amended: an attempt that ends with a partly filled buffer
\* publishes nothing and is counted as failed; and once an attempt has been
\* aborted, a whole valid frame whose first byte is the first byte an attempt
\* takes (a pause longer than the inter-byte timeout separates it from the
\* bytes before it) is read whole into the buffer by that attempt (or the
\* read delivers nothing and leaves it on the line) and is accepted.
C13_ResyncAfterPause ==
    [][TaskStep =>
         /\ (pc = "survey_check" /\ grid_buffer_location \in 1..(GRID_MSG_SIZE - 1))
            => /\ pc' = "survey_write" /\ ~grid_found'
               /\ survey_failed' = survey_failed + 1
               /\ UNCHANGED <<events, uwb_grid>>
         /\ (pc = "distance_check" /\ buffer_location \in 1..(DISTANCE_MSG_SIZE - 1))
            => /\ pc' = "distance_reject" /\ ~ok'
               /\ UNCHANGED <<events, uwb_distance>>
         /\ pc = "distance_reject"
            => /\ pc' = "ranging_poll" /\ read_err_perf' = read_err_perf + 1
               /\ UNCHANGED <<events, uwb_distance>>
         /\ (/\ pc = "survey_receive" /\ survey_failed >= 1 /\ received = <<>>
             /\ pending # <<>> /\ pending[1] = Whole(ValidSurvey))
            => \/ pc' = "survey_check" /\ UNCHANGED <<rx, pending, received>>
               \/ /\ pc' = "survey_receive"
                  /\ grid_buffer_location' = GRID_MSG_SIZE
                  /\ grid_survey_msg' = Bytes(ValidSurvey)
                  /\ pending' = Tail(pending)
         /\ (/\ pc = "survey_check" /\ survey_failed >= 1
             /\ received = Bytes(ValidSurvey))
            => grid_found' /\ pc' = "grid_publish"
         /\ (/\ pc = "distance_receive" /\ read_err_perf >= 1 /\ received = <<>>
             /\ pending # <<>> /\ pending[1] = Whole(ValidDistance))
            => \/ pc' = "distance_check" /\ UNCHANGED <<rx, pending, received>>
               \/ /\ pc' = "distance_receive"
                  /\ buffer_location' = DISTANCE_MSG_SIZE
                  /\ distance_result_msg' = Bytes(ValidDistance)
                  /\ pending' = Tail(pending)
         /\ (/\ pc = "distance_check" /\ read_err_perf >= 1
             /\ received = Bytes(ValidDistance))
            => ok' /\ pc' = "distance_publish"]_vars

\* C13 witness: two survey attempts were aborted, the second with the 162
\* bytes that are the rest of a frame cut by a pause (its stop byte is still
\* in the buffer, one place early); the whole valid frame that followed after
\* a pause has been read by the third attempt and accepted.
C13_Witness ==
    /\ pc = "grid_publish"
    /\ survey_failed = 2
    /\ Count("CMD_GRID_SURVEY") = 3
    /\ bursts_sent = 3
    /\ received = Bytes(ValidSurvey)
    /\ grid_survey_msg = Bytes(ValidSurvey)
    /\ rx = <<>>

\* C14 as claimed: a read() that returns zero bytes while the buffer has room
\* and bytes wait on the line does not end the attempt: the cursor and the
\* buffer are kept and the task goes on waiting in the same framing loop.
C14_ZeroReadKeepsWaiting ==
    [][/\ (/\ pc = "survey_receive" /\ grid_buffer_location < GRID_MSG_SIZE
           /\ rx # <<>> /\ SurveyReceive(0))
          => /\ pc' = "survey_receive"
             /\ UNCHANGED <<grid_buffer_location, grid_survey_msg>>
       /\ (/\ pc = "distance_receive" /\ buffer_location < DISTANCE_MSG_SIZE
           /\ rx # <<>> /\ DistanceReceive(0))
          => /\ pc' = "distance_receive"
             /\ UNCHANGED <<buffer_location, distance_result_msg>>]_vars

\* C14 witness: a ranging attempt has ended with a partly filled buffer
\* although bytes wait on the line: its last read() delivered nothing.
C14_Witness ==
    /\ pc = "distance_check"
    /\ buffer_location \in 1..(DISTANCE_MSG_SIZE - 1)
    /\ rx # <<>>

\* What a step of the task leaves alone when it only writes a command.
notWritten == <<grid_found, buffer_location, grid_survey_msg, distance_result_msg, ok,
                uwb_grid, uwb_distance, read_count_perf, read_err_perf, warnings,
                rx, pending>>

\* C15: wherever the task writes a command, every result of write(), short
\* or full, is possible and leads to the same next position with the command
\* sent once, nothing read and nothing published: only the value of `written`
\* differs; and no other step of the task changes or repeats the write.
C15_ShortWriteOnlyLogged ==
    /\ []((pc = "survey_write" /\ Count("CMD_GRID_SURVEY") < MaxSurveyAttempts)
            => \A w \in WriteResults : ENABLED SurveyWrite(w))
    /\ [](pc = "ranging_write" => \A w \in WriteResults : ENABLED RangingWrite(w))
    /\ [](pc = "stop_write" => \A w \in WriteResults : ENABLED StopWrite(w))
    /\ [][TaskStep =>
            /\ pc = "survey_write"
               => /\ pc' = "survey_receive"
                  /\ events' = Append(events, "CMD_GRID_SURVEY")
                  /\ written' \in WriteResults
                  /\ UNCHANGED notWritten
            /\ pc = "ranging_write"
               => /\ pc' = "ranging_poll"
                  /\ events' = Append(events, "CMD_DISTANCE_RESULT")
                  /\ written' \in WriteResults
                  /\ UNCHANGED <<notWritten, grid_buffer_location>>
            /\ pc = "stop_write"
               => /\ pc' = "done"
                  /\ events' = Append(events, "CMD_STOP_RANGING")
                  /\ written' \in WriteResults
                  /\ UNCHANGED <<notWritten, grid_buffer_location>>
            /\ pc \notin {"survey_write", "ranging_write", "stop_write"}
               => UNCHANGED written]_vars

\* C15 witness: the begin-ranging command was written short, and the session
\* went on to read, accept and publish a distance frame.
C15_Witness ==
    /\ pc = "ranging_poll"
    /\ written = CMD_SIZE - 1
    /\ Count("CMD_DISTANCE_RESULT") = 1
    /\ Count("uwb_distance") = 1

\* C16: both cursors stay within their buffers; a step of a framing loop
\* takes from the line exactly the bytes by which the cursor advances, never
\* more than the room left in the buffer; and with the cursor at the size of
\* the message the loop ends without a wait or a read, leaving the line and
\* the buffer as they are.
C16_CursorWithinBuffer ==
    /\ [](/\ grid_buffer_location \in 0..GRID_MSG_SIZE
          /\ buffer_location \in 0..DISTANCE_MSG_SIZE)
    /\ [][TaskStep =>
            /\ pc = "survey_receive"
               => /\ Len(rx) - Len(rx') = grid_buffer_location' - grid_buffer_location
                  /\ Len(rx) - Len(rx') \in 0..(GRID_MSG_SIZE - grid_buffer_location)
                  /\ rx' = SubSeq(rx, Len(rx) - Len(rx') + 1, Len(rx))
            /\ (pc = "survey_receive" /\ grid_buffer_location = GRID_MSG_SIZE)
               => pc' = "survey_check" /\ UNCHANGED <<rx, pending, grid_survey_msg>>
            /\ pc = "distance_receive"
               => /\ Len(rx) - Len(rx') = buffer_location' - buffer_location
                  /\ Len(rx) - Len(rx') \in 0..(DISTANCE_MSG_SIZE - buffer_location)
                  /\ rx' = SubSeq(rx, Len(rx) - Len(rx') + 1, Len(rx))
            /\ (pc = "distance_receive" /\ buffer_location = DISTANCE_MSG_SIZE)
               => pc' = "distance_check" /\ UNCHANGED <<rx, pending, distance_result_msg>>]_vars

\* C16 witness: a ranging attempt has ended with its buffer full while bytes
\* that arrived behind the frame are still on the line.
C16_Witness ==
    /\ pc = "distance_check"
    /\ buffer_location = DISTANCE_MSG_SIZE
    /\ rx # <<>>

\* C17: the begin-ranging command is written at most once, and it has been
\* written exactly when the session is in Ranging or Stopped; in the record of
\* writes and publishes the survey record precedes it and no survey command,
\* survey record or begin-ranging command follows it, nor does a survey
\* command follow the survey record; a distance attempt only runs after it;
\* and once the survey is acquired the task never returns to AwaitingSurvey.
C17_BeginRangingOnce ==
    /\ [](/\ Count("CMD_DISTANCE_RESULT") <= 1
          /\ (Count("CMD_DISTANCE_RESULT") = 1) <=> (Ranging \/ Stopped)
          /\ InDistanceAttempt => Count("CMD_DISTANCE_RESULT") = 1
          /\ \A i \in 1..Len(events) :
                /\ events[i] = "CMD_DISTANCE_RESULT"
                   => /\ \E j \in 1..(i - 1) : events[j] = "uwb_grid"
                      /\ \A k \in (i + 1)..Len(events) :
                            events[k] \in {"uwb_distance", "CMD_STOP_RANGING"}
                /\ events[i] = "uwb_grid"
                   => \A k \in (i + 1)..Len(events) : events[k] # "CMD_GRID_SURVEY")
    /\ [][/\ grid_found => grid_found' /\ ~AwaitingSurvey'
          /\ (Ranging \/ Stopped) => (Ranging \/ Stopped)']_vars

\* C17 witness: the second ranging attempt is under way after a rejected
\* first one, and the begin-ranging command has been written once.
C17_Witness ==
    /\ pc = "distance_receive"
    /\ RangingAttempts = 1
    /\ read_err_perf = 1
    /\ Count("CMD_DISTANCE_RESULT") = 1

\* C18: until the survey is acquired every attempt is a survey attempt, and
\* afterwards every attempt is a distance attempt; an accepted survey attempt
\* holds 163 bytes and an accepted distance attempt 51; a survey attempt reads
\* into the survey buffer only and a distance attempt into the distance
\* buffer only; and a survey attempt that ends with the 51 bytes of a distance
\* message is not accepted.
C18_OneMessageTypeExpected ==
    /\ [](/\ (AwaitingSurvey /\ pc # "survey_write") <=> (InSurveyAttempt /\ ~grid_found)
          /\ InDistanceAttempt => grid_found
          /\ grid_found => grid_buffer_location = GRID_MSG_SIZE
          /\ pc = "distance_publish" => buffer_location = DISTANCE_MSG_SIZE)
    /\ [][TaskStep =>
            /\ InSurveyAttempt => UNCHANGED <<distance_result_msg, buffer_location>>
            /\ InDistanceAttempt => UNCHANGED <<grid_survey_msg, grid_buffer_location>>
            /\ (pc = "survey_check" /\ grid_buffer_location # GRID_MSG_SIZE)
               => ~grid_found' /\ pc' = "survey_write"
            /\ (pc = "distance_check" /\ buffer_location # DISTANCE_MSG_SIZE)
               => ~ok' /\ pc' = "distance_reject"]_vars

\* C18 witness: a survey attempt took the 51 bytes of a valid distance
\* message, stop byte included, and was not accepted.
C18_Witness ==
    /\ pc = "survey_write"
    /\ ~grid_found
    /\ survey_failed >= 1
    /\ grid_buffer_location = DISTANCE_MSG_SIZE
    /\ received = Bytes(ValidDistance)

\* C19: in the ranging loop only the step at the head of the loop depends on
\* the stop request: it goes to the stop command when the stop is requested
\* and starts an attempt otherwise; the head is reached once per iteration,
\* from the begin-ranging write or from the end of the previous iteration; an
\* attempt starts from the head only, with no stop requested; and the steps
\* of an attempt (reading, testing, publishing, rejecting) go on the same with
\* a stop requested: a frame found ok is published.
C19_PolledOncePerIteration ==
    [][TaskStep =>
         /\ pc = "ranging_poll"
            => pc' = IF exit_requested THEN "stop_write" ELSE "distance_receive"
         /\ (pc # "ranging_poll" /\ pc' = "ranging_poll")
            => pc \in {"ranging_write", "distance_publish", "distance_reject"}
         /\ (pc # "distance_receive" /\ pc' = "distance_receive")
            => pc = "ranging_poll" /\ ~exit_requested
         /\ pc' = "stop_write" => pc = "ranging_poll" /\ exit_requested
         /\ pc = "distance_receive" => pc' \in {"distance_receive", "distance_check"}
         /\ pc = "distance_check"
            => /\ ok' = DistanceAcceptable(buffer_location, distance_result_msg)
               /\ pc' = IF ok' THEN "distance_publish" ELSE "distance_reject"
         /\ pc = "distance_publish"
            => /\ pc' = "ranging_poll"
               /\ events' = Append(events, "uwb_distance")
               /\ uwb_distance' = FieldsOf(distance_result_msg)
         /\ pc = "distance_reject" => pc' = "ranging_poll" /\ events' = events]_vars

\* C19 witness: the stop was requested after the head of the loop had started
\* this attempt; the attempt ran to completion, its frame was found ok and is
\* being published.
C19_Witness ==
    /\ pc = "distance_publish"
    /\ exit_requested
    /\ ok

\* C20: an attempt starts with its cursor at zero and with the buffer as the
\* attempt before left it; a message about to be published consists, all of
\* it, of the bytes read in the attempt that was accepted, and the record
\* published is made of those bytes; records change at no other step; and an
\* attempt that ends short of the message size is never published, whatever
\* the rest of the buffer still holds.
C20_PublishedBytesAreFresh ==
    /\ [](/\ pc = "grid_publish" => grid_survey_msg = received
          /\ pc = "distance_publish" => distance_result_msg = received)
    /\ [][TaskStep =>
            /\ pc = "survey_write"
               => grid_buffer_location' = 0 /\ UNCHANGED grid_survey_msg
            /\ (pc = "ranging_poll" /\ pc' = "distance_receive")
               => buffer_location' = 0 /\ UNCHANGED distance_result_msg
            /\ IF pc = "grid_publish"
               THEN uwb_grid' = FieldsOf(received)
               ELSE UNCHANGED uwb_grid
            /\ IF pc = "distance_publish"
               THEN uwb_distance' = FieldsOf(received)
               ELSE UNCHANGED uwb_distance
            /\ (pc = "survey_check" /\ Len(received) < GRID_MSG_SIZE)
               => pc' # "grid_publish"
            /\ (pc = "distance_check" /\ Len(received) < DISTANCE_MSG_SIZE)
               => pc' # "distance_publish"]_vars

\* C20 witness: after a distance frame was accepted and published, a later
\* attempt ended short; the buffer still ends in the stop byte of the earlier
\* frame, and the attempt is rejected.
C20_Witness ==
    /\ pc = "distance_reject"
    /\ Count("uwb_distance") = 1
    /\ buffer_location \in 1..(DISTANCE_MSG_SIZE - 1)
    /\ StopOf(distance_result_msg) = STOP_BYTE

\* The commands written to the UART so far, in order.
Commands ==
    SelectSeq(events, LAMBDA e : e \in {"CMD_GRID_SURVEY", "CMD_DISTANCE_RESULT",
                                        "CMD_STOP_RANGING"})

\* C21: with the stop requested and the survey acquired, the task goes from
\* publishing the survey through the begin-ranging write and the head of the
\* ranging loop to the stop write, and starts no distance attempt; a session
\* stopped before any distance attempt has read nothing into the distance
\* buffer and published no distance record; and the commands of a session
\* that has ended are one or more survey commands, then one begin-ranging
\* command, then one stop-ranging command.
C21_StopBeforeRanging ==
    /\ [](/\ (Stopped /\ RangingAttempts = 0)
             => /\ Count("uwb_distance") = 0
                /\ uwb_distance = <<>>
                /\ distance_result_msg = Blank(DISTANCE_MSG_SIZE)
                /\ buffer_location = 0
          /\ pc = "done"
             => /\ Len(Commands) >= 3
                /\ \A i \in 1..(Len(Commands) - 2) : Commands[i] = "CMD_GRID_SURVEY"
                /\ Commands[Len(Commands) - 1] = "CMD_DISTANCE_RESULT"
                /\ Commands[Len(Commands)] = "CMD_STOP_RANGING")
    /\ [][(TaskStep /\ exit_requested) =>
            /\ pc = "grid_publish" => pc' = "ranging_write"
            /\ pc = "ranging_write"
               => /\ pc' = "ranging_poll"
                  /\ events' = Append(events, "CMD_DISTANCE_RESULT")
            /\ pc = "ranging_poll"
               => /\ pc' = "stop_write"
                  /\ UNCHANGED <<rx, events, distance_result_msg, buffer_location>>
            /\ pc = "stop_write"
               => /\ pc' = "done"
                  /\ events' = Append(events, "CMD_STOP_RANGING")
                  /\ UNCHANGED <<rx, distance_result_msg, buffer_location>>]_vars

\* C21 witness: the session has ended without a single distance attempt (the
\* stop was requested before the first pass of the head of the ranging loop);
\* the begin-ranging command was written all the same, then the stop command.
C21_Witness ==
    /\ pc = "done"
    /\ RangingAttempts = 0
    /\ Count("CMD_GRID_SURVEY") = 2
    /\ Commands = <<"CMD_GRID_SURVEY", "CMD_GRID_SURVEY", "CMD_DISTANCE_RESULT",
                    "CMD_STOP_RANGING">>

\* C22: in a framing loop the task can always take a step (the wait has a
\* deadline), and every step it can take either ends the attempt, going to
\* the acceptance test with the cursor as it is, or stays in the loop with a
\* strictly larger cursor that is at most the size of the message: so an
\* attempt makes at most as many successful reads as the message has bytes
\* and then reaches its acceptance test.
C22_AttemptTerminates ==
    /\ pc = "survey_receive"
       => /\ ENABLED Run
          /\ ~ENABLED (Run /\ ~(\/ /\ pc' = "survey_check"
                                    /\ grid_buffer_location' = grid_buffer_location
                                 \/ /\ pc' = "survey_receive"
                                    /\ grid_buffer_location' > grid_buffer_location
                                    /\ grid_buffer_location' <= GRID_MSG_SIZE))
    /\ pc = "distance_receive"
       => /\ ENABLED Run
          /\ ~ENABLED (Run /\ ~(\/ /\ pc' = "distance_check"
                                    /\ buffer_location' = buffer_location
                                 \/ /\ pc' = "distance_receive"
                                    /\ buffer_location' > buffer_location
                                    /\ buffer_location' <= DISTANCE_MSG_SIZE))
    /\ pc \in {"survey_check", "distance_check"} => ENABLED Run

\* C22 witness: a ranging attempt read part of a message, then its wait
\* expired with the line empty, and the task is at its acceptance test.
C22_Witness ==
    /\ pc = "distance_check"
    /\ buffer_location \in 1..(DISTANCE_MSG_SIZE - 1)
    /\ uart_timeout = "BYTE"
    /\ rx = <<>>

====
